---------------------------- MODULE Spec2Model ----------------------------
(***************************************************************************)
(* Model of the entity-component frame loop of the isometric shooter:      *)
(* the bullet pool (BulletSystem), movement integration (MovementSystem),  *)
(* sprite mirroring (RenderSprite), collision response (CollisionSystem)   *)
(* and the pooled burst particles (ParticleSystem).                        *)
(*                                                                         *)
(* Units.  Floating point quantities are kept as fixed-point integers:     *)
(*   length    1 = 0.001 world units   (0.5 -> 500, 4.0 -> 4000)           *)
(*   time      1 = 0.02 s              (2 s -> 100, 0.4 s -> 20)           *)
(*   velocity  1 = 0.001 world units per 0.02 s  (25 u/s -> 500)           *)
(*   direction 1000 = 1.0 (dimensionless unit vectors are per-mille)       *)
(*   angle     rotations are given by their cosine and sine, per-mille     *)
(***************************************************************************)
EXTENDS Integers, Sequences, FiniteSets, TLC

(***************************************************************************)
(* Program constants (BulletSystem.ts 14-20, MovementSystem.ts 50-51).     *)
(***************************************************************************)
BULLET_POOL_SIZE == 2
BULLET_SPRITE_SIZE == 8
BULLET_CELL_INDEX == 0
BULLET_SPEED == 500
BULLET_LIFESPAN == 100
BULLET_DAMAGE == 10
moveSpeed == 100
halfSize == 500
SpawnY == 4000

(***************************************************************************)
(* Bounds of the exploration.                                              *)
(***************************************************************************)
MaxTicks == 2
MaxEvents == 2
ParticleCapacity == 3
\* the frames of a barrage (BarrageSpec)
BarrageTicks == 3

(***************************************************************************)
(* Vector3 arithmetic (Babylon Vector3: add, subtract, scale).             *)
(***************************************************************************)
Vec(x, y, z) == [x |-> x, y |-> y, z |-> z]
Zero3 == Vec(0, 0, 0)
VAdd(a, b) == Vec(a.x + b.x, a.y + b.y, a.z + b.z)
VSub(a, b) == Vec(a.x - b.x, a.y - b.y, a.z - b.z)
VScale(a, k) == Vec(a.x * k, a.y * k, a.z * k)
\* Division of a fixed-point product, rounding toward zero.
QuoT(n, d) == IF n >= 0 THEN n \div d ELSE -((-n) \div d)
\* a * (num / den): the scaling of a vector by the real number num/den.
VScaleQ(a, num, den) == Vec(QuoT(a.x * num, den), QuoT(a.y * num, den), QuoT(a.z * num, den))
LengthSquared(a) == a.x * a.x + a.y * a.y + a.z * a.z

(***************************************************************************)
(* Entities of the registry.                                               *)
(***************************************************************************)
BulletNames == <<"bullet_0", "bullet_1", "bullet_2", "bullet_3">>
Bullets == {BulletNames[i] : i \in 1..BULLET_POOL_SIZE}
PlayerId == "player-test"
EnemyId == "enemy-test-1"
Box2Id == "refBox2-entity"
Box3Id == "refBox3-entity"
Entities == Bullets \cup {PlayerId, EnemyId, Box2Id, Box3Id}

playerInitialPos == Vec(0, 500, 0)
enemyInitialPos == Vec(5000, 510, 5000)
box2Position == Vec(-5000, 500, 8000)
box3Position == Vec(0, 500, -6000)

VARIABLES
  \* components: each is a function from the entities holding it to its data
  bullet, transform, velocity, collidable, spriteRef, health, player,
  \* BulletSystem
  pool,
  \* the registry: the identifiers of the entities in the world
  registry,
  \* RenderSprite: the keys of the cached sprite-sheet managers
  spriteManagers,
  \* RenderSprite: the number of Sprite objects the managers hold for each entity
  \* (new Sprite(`sprite_${entity.id}`, manager) enters the manager's list)
  managerSprites,
  \* InputSystem and camera
  keysPressed, cameraPosition, cameraTarget, cameraIsoOffset,
  \* frame loop
  pc, dt, ticks, ran, bulletEntities, collidableEntities, hits, expired,
  \* RenderSprite: the entities whose drawable could not be created in the latest update
  renderFailed,
  \* ParticleSystem
  particles, sps, currentTime, recycled,
  \* the click handler of main: the fire-enabled flag and the pending one-shot callbacks
  canFire, pendingTimeouts,
  \* bookkeeping of the calls made so far
  fireStreak, lastCall, events

components == <<bullet, transform, velocity, collidable, spriteRef, health, player>>
cameraVars == <<cameraPosition, cameraTarget, cameraIsoOffset>>
frameVars == <<pc, dt, ticks, ran, bulletEntities, collidableEntities, hits, expired, renderFailed>>
particleVars == <<particles, sps, currentTime, recycled>>
callVars == <<fireStreak, lastCall, events>>
fireVars == <<canFire, pendingTimeouts>>
vars == <<components, pool, registry, spriteManagers, managerSprites, keysPressed, cameraVars, frameVars, particleVars, callVars, fireVars>>

(***************************************************************************)
(* The registry (miniplex World): addComponent leaves an entity that       *)
(* already holds the component untouched; removeComponent of a component   *)
(* the entity does not hold does nothing.  A query world.with(...) is the  *)
(* set of entities holding every component named.                          *)
(***************************************************************************)
addComponent(comp, e, data) == IF e \in DOMAIN comp THEN comp ELSE (e :> data) @@ comp
removeComponent(comp, e) == [x \in (DOMAIN comp) \ {e} |-> comp[x]]

\* the record kept of the latest call: the operation, the entity it was given, whether
\* it was a fireBullet on an empty pool, and whether the call before it was one
Call(op, entity, rejected, afterRejected) ==
  [op |-> op, entity |-> entity, rejected |-> rejected, afterRejected |-> afterRejected]

\* new BoundingInfo(min, max)
BoundingInfo(min, max) == [min |-> min, max |-> max]
halfVec == Vec(halfSize, halfSize, halfSize)
BoxAround(p) == BoundingInfo(VSub(p, halfVec), VAdd(p, halfVec))
\* the centre of a bounding volume, doubled (kept doubled to stay integral)
Center2(b) == VAdd(b.min, b.max)

\* a drawable handle (Babylon Sprite) as RenderSprite sets it up
Sprite(pos, ref) ==
  [position |-> pos, cellIndex |-> ref.cellIndex, isVisible |-> ref.isVisible,
   width |-> ref.renderSize.width, height |-> ref.renderSize.height, facing |-> <<>>]

bulletSpriteRef ==
  [sheetUrl |-> "/sprites/bullet.png", cellIndex |-> BULLET_CELL_INDEX,
   cellSize |-> [width |-> BULLET_SPRITE_SIZE, height |-> BULLET_SPRITE_SIZE],
   isVisible |-> FALSE, renderSize |-> [width |-> 500, height |-> 500],
   spriteInstance |-> <<>>]
characterSpriteRef(url) ==
  [sheetUrl |-> url, cellIndex |-> 0, cellSize |-> [width |-> 64, height |-> 64],
   isVisible |-> TRUE, renderSize |-> [width |-> 1500, height |-> 1500],
   spriteInstance |-> <<>>]
\* the cache key of getSpriteManager: the sheet url with the cell size
ManagerKey(ref) == <<ref.sheetUrl, ref.cellSize.width, ref.cellSize.height>>
\* onEntityAdded: an entity added with Transform and SpriteRef gets its handle at once
WithSprite(ref, pos) == [ref EXCEPT !.spriteInstance = <<Sprite(pos, ref)>>]

\* a particle of the solid particle system as addShape creates it: visible, white
SolidParticle == [isVisible |-> TRUE, position |-> Zero3, color |-> "white", alpha |-> 1000]

\* the initial fixed isometric offset of the camera
initialIsoOffset == Vec(-15000, 20000, -15000)

(***************************************************************************)
(* The state after construction of the systems and the initial world      *)
(* population.                                                            *)
(***************************************************************************)
\* the Transform, Velocity and Player components of the seeded world
seededTransform ==
  (PlayerId :> [pos |-> playerInitialPos]) @@ (EnemyId :> [pos |-> enemyInitialPos])
  @@ (Box2Id :> [pos |-> box2Position]) @@ (Box3Id :> [pos |-> box3Position])
seededVelocity == (PlayerId :> [vel |-> Zero3]) @@ (EnemyId :> [vel |-> Zero3])
seededPlayer == (PlayerId :> TRUE)

\* the SpriteRef of a seeded character once onEntityAdded has run: with its
\* handle, or without one when the sheet's manager could not be created then
AddedSpriteRef(url, pos, managed) ==
  IF managed THEN WithSprite(characterSpriteRef(url), pos) ELSE characterSpriteRef(url)

\* the state for a world populated with the Transform components trs, the
\* Velocity components vel and the Player tags pl, everything else as main seeds
\* it; unmanaged: the seeded characters for which no sprite-sheet manager and no
\* handle was created when they were added
InitWorld(trs, vel, pl, unmanaged) ==
  /\ bullet = << >>
  /\ transform = trs
  /\ velocity = vel
  /\ collidable = (PlayerId :> [boundingInfo |-> BoxAround(playerInitialPos)])
                  @@ (EnemyId :> [boundingInfo |-> BoxAround(enemyInitialPos)])
                  @@ (Box2Id :> [boundingInfo |-> BoxAround(box2Position)])
                  @@ (Box3Id :> [boundingInfo |-> BoxAround(box3Position)])
  /\ spriteRef = [b \in Bullets |-> bulletSpriteRef]
                 @@ (PlayerId :> AddedSpriteRef("/sprites/player.png", playerInitialPos, PlayerId \notin unmanaged))
                 @@ (EnemyId :> AddedSpriteRef("/sprites/enemy.png", enemyInitialPos, EnemyId \notin unmanaged))
  /\ health = (PlayerId :> [hp |-> 100, maxHp |-> 100]) @@ (EnemyId :> [hp |-> 50, maxHp |-> 50])
  /\ player = pl
  /\ pool = [i \in 1..BULLET_POOL_SIZE |-> BulletNames[i]]
  /\ registry = Entities
  /\ spriteManagers = {ManagerKey(characterSpriteRef("/sprites/player.png")) : e \in {PlayerId} \ unmanaged}
                       \cup {ManagerKey(characterSpriteRef("/sprites/enemy.png")) : e \in {EnemyId} \ unmanaged}
  /\ managerSprites = [e \in Entities |-> IF e \in {PlayerId, EnemyId} \ unmanaged THEN 1 ELSE 0]
  /\ keysPressed = {}
  /\ cameraPosition = VAdd(playerInitialPos, initialIsoOffset)
  /\ cameraTarget = playerInitialPos
  /\ cameraIsoOffset = initialIsoOffset
  /\ pc = "idle"
  /\ dt = 0
  /\ ticks = 0
  /\ ran = << >>
  /\ bulletEntities = {}
  /\ collidableEntities = {}
  /\ hits = << >>
  /\ expired = {}
  /\ renderFailed = {}
  /\ particles = << >>
  /\ sps = [i \in 0..(ParticleCapacity - 1) |-> SolidParticle]
  /\ currentTime = 0
  /\ recycled = {}
  /\ canFire = TRUE
  /\ pendingTimeouts = 0
  /\ fireStreak = 0
  /\ events = 0
  /\ lastCall = Call("none", "", FALSE, FALSE)

Init == InitWorld(seededTransform, seededVelocity, seededPlayer, {})

(***************************************************************************)
(* BulletSystem.fireBullet(firedBy, position, direction)                   *)
(***************************************************************************)
\* (variant: the guard off by one, refusing the last free identifier)
PoolEmptyOffByOne(p) == Len(p) <= 1
PoolEmpty(p) == Len(p) = 0
\* pool.pop(): the identifier on top of the free stack, and the stack without it
PoolTop(p) == p[Len(p)]
\* (variant: the identifier on top is read but left on the stack)
PoolPoppedKept(p) == p
PoolPopped(p) == SubSeq(p, 1, Len(p) - 1)
\* pool.push(entity)
PoolPushed(p, e) == Append(p, e)

\* velocity = direction.scale(BULLET_SPEED)
BulletVelocity(direction) == VScaleQ(direction, BULLET_SPEED, 1000)
\* spawnPosition = position.add(direction.scale(0.5)); spawnPosition.y = 4.0
SpawnPosition(position, direction) ==
  [VAdd(position, VScaleQ(direction, 1, 2)) EXCEPT !.y = SpawnY]

NewBullet(firedBy) == [damage |-> BULLET_DAMAGE, lifespan |-> BULLET_LIFESPAN, firedBy |-> firedBy]

\* the SpriteRef data fireBullet hands to addComponent: the present data (if any)
\* overwritten by the bullet's sheet binding, visible
FiredSpriteRef(refs, e) ==
  LET base == IF e \in DOMAIN refs THEN refs[e] ELSE [bulletSpriteRef EXCEPT !.isVisible = TRUE]
  IN [base EXCEPT !.sheetUrl = "/sprites/bullet.png", !.cellIndex = BULLET_CELL_INDEX,
                  !.isVisible = TRUE,
                  !.cellSize = [width |-> BULLET_SPRITE_SIZE, height |-> BULLET_SPRITE_SIZE],
                  !.renderSize = [width |-> 500, height |-> 500]]
\* addComponent followed by the direct mutation of isVisible on the held data
SpriteRefAfterFire(refs, e) ==
  LET merged == addComponent(refs, e, FiredSpriteRef(refs, e))
  IN [merged EXCEPT ![e].isVisible = TRUE]

fireBullet(firedBy, position, direction) ==
  IF PoolEmpty(pool)
  THEN UNCHANGED <<components, pool, registry>>
  ELSE LET bulletEntity == PoolTop(pool)
           spawnPosition == SpawnPosition(position, direction)
       IN /\ pool' = PoolPopped(pool)
          /\ bullet' = addComponent(bullet, bulletEntity, NewBullet(firedBy))
          /\ transform' = addComponent(transform, bulletEntity, [pos |-> spawnPosition])
          /\ velocity' = addComponent(velocity, bulletEntity, [vel |-> BulletVelocity(direction)])
          /\ collidable' = addComponent(collidable, bulletEntity,
                                        [boundingInfo |-> BoxAround(spawnPosition)])
          /\ spriteRef' = SpriteRefAfterFire(spriteRef, bulletEntity)
          /\ UNCHANGED <<health, player, registry>>

(***************************************************************************)
(* BulletSystem.returnBullet(entity)                                       *)
(***************************************************************************)
\* the re-add of SpriteRef with isVisible false, through addComponent
SpriteRefAfterReturn(refs, e) ==
  IF e \in DOMAIN refs
  THEN addComponent(refs, e,
         [refs[e] EXCEPT !.isVisible = FALSE,
                         !.cellSize = [width |-> BULLET_SPRITE_SIZE, height |-> BULLET_SPRITE_SIZE],
                         !.renderSize = [width |-> 500, height |-> 500]])
  ELSE refs

\* (variant: the returned bullet keeps its Transform and its Collidable)
ReturnedWithVolume(st, e) ==
  [bullet |-> removeComponent(st.bullet, e),
   transform |-> st.transform,
   velocity |-> removeComponent(st.velocity, e),
   collidable |-> st.collidable,
   spriteRef |-> SpriteRefAfterReturn(st.spriteRef, e),
   pool |-> PoolPushed(st.pool, e),
   registry |-> st.registry]
\* (variant: the returned entity is taken out of the registry)
ReturnedRemoved(st, e) ==
  [bullet |-> removeComponent(st.bullet, e),
   transform |-> removeComponent(st.transform, e),
   velocity |-> removeComponent(st.velocity, e),
   collidable |-> removeComponent(st.collidable, e),
   spriteRef |-> SpriteRefAfterReturn(st.spriteRef, e),
   pool |-> PoolPushed(st.pool, e),
   registry |-> st.registry \ {e}]
\* the components, the pool and the registry after returnBullet(e), as functions
\* of the state before
Returned(st, e) ==
  [bullet |-> removeComponent(st.bullet, e),
   transform |-> removeComponent(st.transform, e),
   velocity |-> removeComponent(st.velocity, e),
   collidable |-> removeComponent(st.collidable, e),
   spriteRef |-> SpriteRefAfterReturn(st.spriteRef, e),
   pool |-> PoolPushed(st.pool, e),
   registry |-> st.registry]

BulletState ==
  [bullet |-> bullet, transform |-> transform, velocity |-> velocity,
   collidable |-> collidable, spriteRef |-> spriteRef, pool |-> pool, registry |-> registry]

SetBulletState(st) ==
  /\ bullet' = st.bullet
  /\ transform' = st.transform
  /\ velocity' = st.velocity
  /\ collidable' = st.collidable
  /\ spriteRef' = st.spriteRef
  /\ pool' = st.pool
  /\ registry' = st.registry

returnBullet(entity) ==
  /\ SetBulletState(Returned(BulletState, entity))
  /\ UNCHANGED <<health, player>>

(***************************************************************************)
(* Calls of the pool's two operations by any caller, in any order.        *)
(***************************************************************************)
East == Vec(1000, 0, 0)
Down == Vec(0, -1000, 0)
\* a direction of length 2
EastTwice == Vec(2000, 0, 0)
\* the arguments fireBullet is called with
PoolShots ==
  {[firedBy |-> PlayerId, position |-> playerInitialPos, direction |-> East],
   [firedBy |-> EnemyId, position |-> enemyInitialPos, direction |-> Down],
   [firedBy |-> PlayerId, position |-> playerInitialPos, direction |-> EastTwice]}
MaxPoolLen == BULLET_POOL_SIZE + 2

\* fireStreak counts the fireBullet calls made since construction while nothing
\* else has been called (capped one past the capacity); -1 afterwards
CallFireBullet ==
  /\ pc = "idle"
  /\ \E shot \in PoolShots : fireBullet(shot.firedBy, shot.position, shot.direction)
  /\ fireStreak' = IF fireStreak >= 0 /\ fireStreak <= BULLET_POOL_SIZE THEN fireStreak + 1 ELSE fireStreak
  /\ lastCall' = Call("fireBullet", "", PoolEmpty(pool), lastCall.rejected)
  /\ UNCHANGED <<fireVars, spriteManagers, managerSprites, keysPressed, cameraVars, frameVars, particleVars, events>>

CallReturnBullet ==
  /\ pc = "idle"
  /\ Len(pool) < MaxPoolLen
  /\ \E entity \in Bullets :
       /\ returnBullet(entity)
       /\ lastCall' = Call("returnBullet", entity, FALSE, lastCall.rejected)
  /\ fireStreak' = -1
  /\ UNCHANGED <<fireVars, spriteManagers, managerSprites, keysPressed, cameraVars, frameVars, particleVars, events>>

PoolNext == CallFireBullet \/ CallReturnBullet
PoolSpec == Init /\ [][PoolNext]_vars

(***************************************************************************)
(* InputSystem: the key-down set, changed by key events between ticks.     *)
(***************************************************************************)
\* the keys MovementSystem reads, and the one the frame loop is explored with
Keys == {"w", "a", "s", "d", "q", "e"}
FrameKeys == {"w"}

\* an input event is delivered between ticks, while the run has events and ticks left
EventDue == pc = "idle" /\ events < MaxEvents /\ ticks < MaxTicks

handleKeyDown(key) ==
  /\ EventDue
  /\ keysPressed' = keysPressed \cup {key}
  /\ events' = events + 1
  /\ UNCHANGED <<fireVars, spriteManagers, managerSprites, components, pool, registry, cameraVars, frameVars, particleVars, fireStreak, lastCall>>

handleKeyUp(key) ==
  /\ EventDue
  /\ key \in keysPressed
  /\ keysPressed' = keysPressed \ {key}
  /\ events' = events + 1
  /\ UNCHANGED <<fireVars, spriteManagers, managerSprites, components, pool, registry, cameraVars, frameVars, particleVars, fireStreak, lastCall>>

(***************************************************************************)
(* MovementSystem.update(dt)                                               *)
(***************************************************************************)
\* elapsed times a tick may report (engine.getDeltaTime), in units of 0.02 s
DtSet == {1, 6, 50}
\* one frame length, 0.12 s, for the specifications that fix it
FrameDt == 6

\* the integer square root, by bisection
RECURSIVE SqrtBetween(_, _, _)
SqrtBetween(n, lo, hi) ==
  IF lo >= hi THEN lo
  ELSE LET mid == (lo + hi + 1) \div 2
       IN IF mid * mid <= n THEN SqrtBetween(n, mid, hi) ELSE SqrtBetween(n, lo, mid - 1)
ISqrt(n) == SqrtBetween(n, 0, 65536)

\* Vector3.normalize(): the unit vector (per-mille) along v; v itself when its length is 0
Normalize(v) ==
  LET len == ISqrt(LengthSquared(v))
  IN IF len = 0 THEN v ELSE VScaleQ(v, 1000, len)

\* cosine and sine (per-mille) of the angle rotationSpeed * dt = 2.0 rad/s * dt
Cos1000(d) == CASE d = 1 -> 999 [] d = 6 -> 971 [] d = 50 -> -416
Sin1000(d) == CASE d = 1 -> 40 [] d = 6 -> 238 [] d = 50 -> 909

\* rotationAmount: the sign of the rotation (e overrides q) with the elapsed time
RotationSign(keys) == IF "e" \in keys THEN 1 ELSE IF "q" \in keys THEN -1 ELSE 0

\* Matrix.RotationY(sign * 2.0 * dt) applied to v
RotateY(v, sign, d) ==
  LET c == Cos1000(d)
      sn == sign * Sin1000(d)
  IN Vec(QuoT(v.x * c + v.z * sn, 1000), v.y, QuoT(v.z * c - v.x * sn, 1000))

\* camera.getDirection(Forward) and (Right), projected on the ground plane, normalized
CameraForward(camPos, camTarget) ==
  LET look == VSub(camTarget, camPos) IN Normalize(Vec(look.x, 0, look.z))
CameraRight(camPos, camTarget) ==
  LET f == CameraForward(camPos, camTarget) IN Normalize(Vec(f.z, 0, -f.x))

\* (variant: the sum is scaled by moveSpeed without being normalized)
MoveDirectionUnnormalized(keys, forward, right) ==
  LET w == IF "w" \in keys THEN forward ELSE Zero3
      sk == IF "s" \in keys THEN forward ELSE Zero3
      a == IF "a" \in keys THEN right ELSE Zero3
      dk == IF "d" \in keys THEN right ELSE Zero3
      sum == VSub(VAdd(VSub(w, sk), dk), a)
  IN VScaleQ(sum, moveSpeed, 1000)
\* _moveDirection: the sum of the basis vectors the four movement keys select,
\* normalized and scaled by moveSpeed when longer than the threshold
MoveDirection(keys, forward, right) ==
  LET w == IF "w" \in keys THEN forward ELSE Zero3
      sk == IF "s" \in keys THEN forward ELSE Zero3
      a == IF "a" \in keys THEN right ELSE Zero3
      dk == IF "d" \in keys THEN right ELSE Zero3
      sum == VSub(VAdd(VSub(w, sk), dk), a)
      isMoving == LengthSquared(sum) > 1000
  IN IF isMoving THEN VScaleQ(Normalize(sum), moveSpeed, 1000) ELSE sum

\* the queries of MovementSystem
playerQuery == DOMAIN player \cap DOMAIN transform \cap DOMAIN velocity
\* (variant: the membership of the query as it was when the system was constructed)
allMovingQueryAtConstruction == {PlayerId, EnemyId}
allMovingQuery == DOMAIN transform \cap DOMAIN velocity

\* the velocity components after the player-velocity step
PlayerVelocityWritten(vels, move) ==
  [e \in DOMAIN vels |->
     IF e \in playerQuery THEN [vels[e] EXCEPT !.vel.x = move.x, !.vel.z = move.z] ELSE vels[e]]

\* (variant: the velocity is added without scaling by dt)
IntegratedUnscaled(pos, vel, d) == VAdd(pos, vel)
\* position integration: pos += vel * dt
Integrated(pos, vel, d) == VAdd(pos, VScale(vel, d))

\* a frame of length d, while fewer than maxTicks frames have run
\* (variant: the camera is put at the player's position)
FollowPositionAtPlayer(playerPos, offset) == playerPos
\* _desiredCameraPosition: the player's position plus the offset
FollowPosition(playerPos, offset) == VAdd(playerPos, offset)

MovementUpdateWithin(d, maxTicks) ==
  /\ pc = "idle"
  /\ ticks < maxTicks
  /\   LET forward == CameraForward(cameraPosition, cameraTarget)
           right == CameraRight(cameraPosition, cameraTarget)
           move == MoveDirection(keysPressed, forward, right)
           vels == PlayerVelocityWritten(velocity, move)
           moved == [e \in DOMAIN transform |->
                       IF e \in allMovingQuery
                       THEN [transform[e] EXCEPT !.pos = Integrated(transform[e].pos, vels[e].vel, d)]
                       ELSE transform[e]]
           sign == RotationSign(keysPressed)
           rotated == IF sign # 0 /\ d # 0 THEN RotateY(cameraIsoOffset, sign, d) ELSE cameraIsoOffset
       IN /\ dt' = d
          /\ velocity' = vels
          /\ transform' = moved
          /\ IF playerQuery # {}
             THEN LET p == CHOOSE e \in playerQuery : TRUE
                  IN /\ cameraIsoOffset' = rotated
                     /\ cameraPosition' = FollowPosition(moved[p].pos, rotated)
                     /\ cameraTarget' = moved[p].pos
             ELSE UNCHANGED cameraVars
  /\ pc' = "bullet"
  /\ ran' = <<"MovementSystem">>
  /\ hits' = << >>
  /\ expired' = {}
  /\ fireStreak' = -1
  /\ lastCall' = Call("tick", "", FALSE, FALSE)
  /\ UNCHANGED <<fireVars, spriteManagers, managerSprites, bullet, collidable, spriteRef, health, player, pool, registry, keysPressed,
                 ticks, bulletEntities, collidableEntities, renderFailed, particleVars, events>>

MovementUpdateAt(d) == MovementUpdateWithin(d, MaxTicks)
MovementUpdate == \E d \in DtSet : MovementUpdateAt(d)

(***************************************************************************)
(* BulletSystem.update(dt)                                                 *)
(***************************************************************************)
\* the orders in which a query may hand out the entities of S
Orders(S) == {o \in [1..Cardinality(S) -> S] : \A i, j \in 1..Cardinality(S) : i # j => o[i] # o[j]}

\* bulletData.lifespan -= dt
\* (variant: the lifespan is not decreased)
LifespanAfterFrozen(lifespan, d) == lifespan
LifespanAfter(lifespan, d) == lifespan - d
\* (variant: a bullet whose lifespan is exactly 0 survives)
ExpiredStrict(lifespan) == lifespan < 0
\* the expiry test of update
Expired(lifespan) == lifespan <= 0

\* (variant: an expired bullet is handed to returnBullet twice)
BulletAgedReturnedTwice(st, e, d) ==
  LET aged == [st EXCEPT !.bullet[e].lifespan = LifespanAfter(@, d)]
      synced == IF e \in DOMAIN aged.collidable /\ e \in DOMAIN aged.transform
                THEN [aged EXCEPT !.collidable[e].boundingInfo = BoxAround(aged.transform[e].pos)]
                ELSE aged
  IN IF Expired(synced.bullet[e].lifespan) THEN Returned(Returned(synced, e), e) ELSE synced
\* one iteration of update's loop, for entity e
BulletAged(st, e, d) ==
  LET aged == [st EXCEPT !.bullet[e].lifespan = LifespanAfter(@, d)]
      synced == IF e \in DOMAIN aged.collidable /\ e \in DOMAIN aged.transform
                THEN [aged EXCEPT !.collidable[e].boundingInfo = BoxAround(aged.transform[e].pos)]
                ELSE aged
  IN IF Expired(synced.bullet[e].lifespan) THEN Returned(synced, e) ELSE synced

RECURSIVE BulletsAged(_, _, _)
BulletsAged(st, order, d) ==
  IF Len(order) = 0 THEN st
  ELSE BulletsAged(BulletAged(st, Head(order), d), Tail(order), d)

activeBullets == DOMAIN bullet \cap DOMAIN transform \cap DOMAIN velocity

BulletUpdate ==
  /\ pc = "bullet"
  /\ \E order \in Orders(activeBullets) :
       SetBulletState(BulletsAged(BulletState, order, dt))
  /\ expired' = activeBullets \ DOMAIN bullet'
  /\ pc' = "render"
  /\ ran' = Append(ran, "BulletSystem")
  /\ UNCHANGED <<fireVars, spriteManagers, managerSprites, health, player, keysPressed, cameraVars, dt, ticks, bulletEntities,
                 collidableEntities, hits, renderFailed, particleVars, callVars>>

(***************************************************************************)
(* RenderSpriteSystem.update(dt): mirror Transform / SpriteRef onto the    *)
(* drawable handles, creating a missing handle of a visible entity.        *)
(***************************************************************************)
Abs(n) == IF n < 0 THEN -n ELSE n
\* |v| > 0.01 world units per second, with v in units of 0.05
AboveTurnThreshold(v) == 5 * Abs(v) > 1

\* (variant: a handle is created for every visible entity, referenced or not)
NeedsSpriteWhenVisible(ref) == ref.isVisible
\* the entity has no handle yet and should be visible: update creates one
NeedsSprite(ref) == Len(ref.spriteInstance) = 0 /\ ref.isVisible

\* one iteration of update's loop for entity e, the manager being available;
\* throws: new Sprite(...) raises and the catch clears the reference
Mirrored(e, ref, pos, throws) ==
  LET created == IF NeedsSprite(ref) /\ ~throws THEN <<Sprite(pos, ref)>> ELSE ref.spriteInstance
  IN IF Len(created) = 0 THEN ref
     ELSE LET turns == /\ e \in DOMAIN velocity
                       /\ e \in Bullets
                       /\ (AboveTurnThreshold(velocity[e].vel.x) \/ AboveTurnThreshold(velocity[e].vel.z))
              sprite == [created[1] EXCEPT
                           !.position = pos, !.cellIndex = ref.cellIndex,
                           !.isVisible = ref.isVisible,
                           !.width = ref.renderSize.width, !.height = ref.renderSize.height,
                           !.facing = IF turns THEN <<velocity[e].vel.x, velocity[e].vel.z>> ELSE @]
          IN [ref EXCEPT !.spriteInstance = <<sprite>>]

renderQuery == DOMAIN transform \cap DOMAIN spriteRef

\* The loop visits the entities of the query in some order.  getSpriteManager
\* can fail only for a key that is not cached yet, and then update returns:
\* `before` is the set of entities visited before that (all of them when no
\* manager fails), stopAt the entity whose manager could not be created, and
\* throws the visited entities whose new Sprite(...) raised.
RenderUpdate ==
  /\ pc = "render"
  /\ LET needing == {e \in renderQuery : NeedsSprite(spriteRef[e])}
         uncached == {e \in needing : ManagerKey(spriteRef[e]) \notin spriteManagers}
     IN \E stopAt \in SUBSET uncached, before \in SUBSET renderQuery, throws \in SUBSET needing :
          /\ Cardinality(stopAt) <= 1
          /\ IF stopAt = {} THEN before = renderQuery
             ELSE \A st \in stopAt :
                    /\ st \notin before
                    /\ \A e \in before \cap needing : ManagerKey(spriteRef[e]) # ManagerKey(spriteRef[st])
          /\ throws \subseteq before
          /\ spriteRef' = [e \in DOMAIN spriteRef |->
                             IF e \in before
                             THEN Mirrored(e, spriteRef[e], transform[e].pos, e \in throws)
                             ELSE spriteRef[e]]
          /\ spriteManagers' = spriteManagers \cup {ManagerKey(spriteRef[e]) : e \in before \cap needing}
          /\ managerSprites' = [e \in DOMAIN managerSprites |->
                                  IF e \in (before \cap needing) \ throws
                                  THEN managerSprites[e] + 1 ELSE managerSprites[e]]
          /\ renderFailed' = stopAt \cup throws
  /\ pc' = "collision"
  /\ ran' = Append(ran, "RenderSpriteSystem")
  /\ UNCHANGED <<fireVars, bullet, transform, velocity, collidable, health, player, pool, registry, keysPressed,
                 cameraVars, dt, ticks, bulletEntities, collidableEntities, hits, expired,
                 particleVars, callVars>>

(***************************************************************************)
(* ParticleSystem: spawnParticles and update (sps.setParticles calls       *)
(* updateParticle on every particle of the pool).                          *)
(***************************************************************************)
ParticleState == [particles |-> particles, sps |-> sps, currentTime |-> currentTime,
                  recycled |-> recycled]
SetParticleState(pst) ==
  /\ particles' = pst.particles
  /\ sps' = pst.sps
  /\ currentTime' = pst.currentTime
  /\ recycled' = pst.recycled

\* the random numbers one particle draws: a direction on the unit sphere and the
\* uniform numbers (per-mille) behind its speed and its lifetime
Draws ==
  {[dir |-> Vec(0, 1000, 0), uSpeed |-> 0, uLife |-> 0],
   [dir |-> Vec(1000, 0, 0), uSpeed |-> 999, uLife |-> 999]}

\* lifetime * (0.8 + Math.random() * 0.4)
JitteredLifetime(lifetime, u) == QuoT(lifetime * (800 + QuoT(400 * u, 1000)), 1000)
\* speedMin + Math.random() * (speedMax - speedMin)
DrawnSpeed(speedMin, speedMax, u) == speedMin + QuoT(u * (speedMax - speedMin), 1000)

\* (variant: every slot is taken, active or not)
SlotTaken(pst, i) == TRUE
\* (variant: a tracked slot passes the test as well)
SlotInvisibleOrTracked(pst, i) == ~pst.sps[i].isVisible \/ i \in DOMAIN pst.particles
\* the inactivity test of spawnParticles
SlotInactive(pst, i) == ~pst.sps[i].isVisible /\ i \notin DOMAIN pst.particles

\* the direct initialization of slot i
ParticleInitialized(pst, i, position, color, lifetime, speedMin, speedMax, draw) ==
  LET data == [id |-> i, startTime |-> pst.currentTime,
               lifetime |-> JitteredLifetime(lifetime, draw.uLife),
               initialVelocity |-> VScaleQ(draw.dir, DrawnSpeed(speedMin, speedMax, draw.uSpeed), 1000),
               initialPosition |-> position]
  IN [pst EXCEPT !.particles = (i :> data) @@ @,
                 !.sps[i] = [isVisible |-> TRUE, position |-> position, color |-> color,
                             alpha |-> 1000]]

\* the scan of the pool from slot i on, with `spawned` particles initialized so far
RECURSIVE SpawnLoop(_, _, _, _, _, _, _, _, _, _)
SpawnLoop(pst, i, spawned, position, color, count, lifetime, speedMin, speedMax, draws) ==
  IF ~(i < ParticleCapacity /\ spawned < count) THEN pst
  ELSE IF SlotInactive(pst, i)
       THEN SpawnLoop(ParticleInitialized(pst, i, position, color, lifetime, speedMin, speedMax, draws[i]),
                      i + 1, spawned + 1, position, color, count, lifetime, speedMin, speedMax, draws)
       ELSE SpawnLoop(pst, i + 1, spawned, position, color, count, lifetime, speedMin, speedMax, draws)

spawnParticles(pst, position, color, count, lifetime, speedMin, speedMax, draws) ==
  SpawnLoop(pst, 0, 0, position, color, count, lifetime, speedMin, speedMax, draws)

\* the slots a spawnParticles(count) will initialize: they are the ones that draw
SlotsToSpawn(pst, count) ==
  LET free == {i \in DOMAIN pst.sps : SlotInactive(pst, i)}
  IN {i \in free : Cardinality({j \in free : j < i}) < count}

\* (variant: the slot is not removed from the active map)
recycleParticleKept(pst, i) == [pst EXCEPT !.recycled = @ \cup {i}]
\* recycleParticle(id)
recycleParticle(pst, i) ==
  [pst EXCEPT !.particles = [j \in (DOMAIN @) \ {i} |-> @[j]], !.recycled = @ \cup {i}]

\* the lifetime test of updateParticle
LifetimeEnded(age, lifetime) == age >= lifetime

\* (variant: an untracked slot is left as it is)
updateParticleTrackedOnly(pst, i) ==
  IF i \notin DOMAIN pst.particles
  THEN pst
  ELSE LET data == pst.particles[i]
           age == pst.currentTime - data.startTime
       IN IF LifetimeEnded(age, data.lifetime)
          THEN recycleParticle([pst EXCEPT !.sps[i].isVisible = FALSE], i)
          ELSE [pst EXCEPT !.sps[i].position = VAdd(data.initialPosition, VScale(data.initialVelocity, age)),
                           !.sps[i].alpha = 1000 - QuoT(1000 * age, data.lifetime),
                           !.sps[i].isVisible = TRUE]
\* sps.updateParticle(particle) for slot i
updateParticle(pst, i) ==
  IF i \notin DOMAIN pst.particles
  THEN IF pst.sps[i].isVisible THEN [pst EXCEPT !.sps[i].isVisible = FALSE] ELSE pst
  ELSE LET data == pst.particles[i]
           age == pst.currentTime - data.startTime
       IN IF LifetimeEnded(age, data.lifetime)
          THEN recycleParticle([pst EXCEPT !.sps[i].isVisible = FALSE], i)
          ELSE [pst EXCEPT !.sps[i].position = VAdd(data.initialPosition, VScale(data.initialVelocity, age)),
                           !.sps[i].alpha = 1000 - QuoT(1000 * age, data.lifetime),
                           !.sps[i].isVisible = TRUE]

RECURSIVE SetParticlesFrom(_, _)
SetParticlesFrom(pst, i) ==
  IF i >= ParticleCapacity THEN pst ELSE SetParticlesFrom(updateParticle(pst, i), i + 1)

\* ParticleSystem.update(dt)
ParticlesUpdated(pst, d) == SetParticlesFrom([pst EXCEPT !.currentTime = @ + d], 0)

(***************************************************************************)
(* CollisionSystem.update(dt), one bullet of the materialized list at a    *)
(* step.                                                                   *)
(***************************************************************************)
\* BoundingInfo.intersects(other, false): axis-aligned boxes overlap or touch
Intersects(a, b) ==
  ~(\/ a.max.x < b.min.x \/ a.min.x > b.max.x
    \/ a.max.y < b.min.y \/ a.min.y > b.max.y
    \/ a.max.z < b.min.z \/ a.min.z > b.max.z)

\* (variant: only the bullet itself is skipped)
SkippedSelfOnly(b, other) == b = other
\* the candidate is skipped: the bullet itself, or the entity that fired it
SkippedAsOwn(b, other) == b = other \/ bullet[b].firedBy = other

\* both sides carry the data the test needs
HasTestData(b, other) ==
  /\ b \in DOMAIN bullet /\ b \in DOMAIN transform /\ other \in DOMAIN transform
  /\ b \in DOMAIN collidable /\ other \in DOMAIN collidable

\* the candidates bullet b would register a collision with
Targets(b) ==
  {other \in collidableEntities :
     /\ ~SkippedAsOwn(b, other)
     /\ HasTestData(b, other)
     /\ Intersects(collidable[b].boundingInfo, collidable[other].boundingInfo)}

\* (variant: the damage lowers maxHp along with hp)
DamagedBoth(h, damage) == [hp |-> h.hp - damage, maxHp |-> h.maxHp - damage]
\* (variant: the damage is taken from maxHp)
DamagedMaxHp(h, damage) == [h EXCEPT !.maxHp = @ - damage]
\* (variant: a hit takes the damage twice)
DamagedTwice(h, damage) == [h EXCEPT !.hp = @ - 2 * damage]
\* otherHealth.hp -= bulletData.damage
Damaged(h, damage) == [h EXCEPT !.hp = @ - damage]

\* (variant: a target whose hp is not positive after the hit loses its Health)
HealthAfterHitReaped(h, struck, damage) ==
  LET after == [e \in DOMAIN h |-> IF e \in struck THEN Damaged(h[e], damage) ELSE h[e]]
  IN [e \in {x \in DOMAIN h : after[x].hp > 0} |-> after[e]]
\* the Health components after the response: only a struck holder's hp is lowered
HealthAfterHit(h, struck, damage) ==
  [e \in DOMAIN h |-> IF e \in struck THEN Damaged(h[e], damage) ELSE h[e]]

\* (variant: every burst asks for 10 particles)
HitParticleCountFlat(other) == 10
HitParticleCount(other) == IF other \in DOMAIN health THEN 15 ELSE 10
HitParticleColor(other) == IF other \in DOMAIN health THEN "red" ELSE "grey"

CollisionBegin ==
  /\ pc = "collision"
  /\ collidableEntities' = DOMAIN collidable \cap DOMAIN transform
  /\ bulletEntities' = DOMAIN bullet \cap DOMAIN collidable \cap DOMAIN transform
  /\ pc' = "colliding"
  /\ ran' = Append(ran, "CollisionSystem")
  /\ UNCHANGED <<fireVars, spriteManagers, managerSprites, components, pool, registry, keysPressed, cameraVars, dt, ticks, hits, expired, renderFailed,
                 particleVars, callVars>>

\* (variant: the loop does not break, every intersecting candidate is struck)
StruckAll(b, other) == Targets(b)
\* the candidates given the response for bullet b when `other` is the first one
\* found intersecting: the inner loop breaks right after it
Struck(b, other) == {other}

\* the record of one registered collision
Hit(b, other) ==
  [bullet |-> b, other |-> other, firedBy |-> bullet[b].firedBy,
   damage |-> bullet[b].damage, position |-> transform[b].pos,
   particleCount |-> HitParticleCount(other), candidates |-> Cardinality(Targets(b))]

RECURSIVE HitsOf(_, _)
HitsOf(b, struck) ==
  IF struck = {} THEN << >>
  ELSE LET other == CHOOSE o \in struck : TRUE
       IN <<Hit(b, other)>> \o HitsOf(b, struck \ {other})

\* the response to bullet b intersecting candidate other
Collide(b, other) ==
  LET hitPosition == transform[b].pos
      count == HitParticleCount(other)
      struck == Struck(b, other)
  IN /\ health' = HealthAfterHit(health, struck, bullet[b].damage)
     /\ \E draws \in [SlotsToSpawn(ParticleState, count) -> Draws] :
          SetParticleState(spawnParticles(ParticleState, hitPosition, HitParticleColor(other),
                                          count, 20, 20, 80, draws))
     /\ SetBulletState(Returned(BulletState, b))
     /\ hits' = hits \o HitsOf(b, struck)
     /\ UNCHANGED player

CollisionStep ==
  /\ pc = "colliding"
  /\ \E b \in bulletEntities :
       /\ bulletEntities' = bulletEntities \ {b}
       /\ IF Targets(b) = {}
          THEN UNCHANGED <<components, pool, registry, hits, particleVars>>
          ELSE \E other \in Targets(b) : Collide(b, other)
  /\ UNCHANGED <<fireVars, spriteManagers, managerSprites, keysPressed, cameraVars, pc, dt, ticks, ran, collidableEntities, expired, renderFailed, callVars>>

\* the loops are over: scene.render(), and the frame callback returns
CollisionEnd ==
  /\ pc = "colliding"
  /\ bulletEntities = {}
  /\ pc' = "idle"
  /\ ticks' = ticks + 1
  /\ UNCHANGED <<fireVars, spriteManagers, managerSprites, components, pool, registry, keysPressed, cameraVars, dt, ran, bulletEntities,
                 collidableEntities, hits, expired, renderFailed, particleVars, callVars>>

(***************************************************************************)
(* The frame loop with its event sources: key events and fireBullet calls  *)
(* arrive between ticks; a tick runs the systems in the order of the       *)
(* render-loop callback.                                                   *)
(***************************************************************************)
\* the shots fired between ticks: a level shot of the player from one unit
\* beside the green box and aimed at it, and shots straight down onto the player
\* by the enemy and by the player itself
North == Vec(0, 0, -1000)
besideBox3 == VAdd(box3Position, Vec(0, 0, 1000))
Shots ==
  {[firedBy |-> PlayerId, position |-> besideBox3, direction |-> North],
   [firedBy |-> EnemyId, position |-> playerInitialPos, direction |-> Down],
   [firedBy |-> PlayerId, position |-> playerInitialPos, direction |-> Down]}

FrameFireBullet ==
  /\ EventDue
  /\ \E shot \in Shots : fireBullet(shot.firedBy, shot.position, shot.direction)
  /\ events' = events + 1
  /\ fireStreak' = IF fireStreak >= 0 /\ fireStreak <= BULLET_POOL_SIZE THEN fireStreak + 1 ELSE fireStreak
  /\ lastCall' = Call("fireBullet", "", PoolEmpty(pool), lastCall.rejected)
  /\ UNCHANGED <<fireVars, spriteManagers, managerSprites, keysPressed, cameraVars, frameVars, particleVars>>

Next ==
  \/ FrameFireBullet
  \/ \E key \in FrameKeys : handleKeyDown(key)
  \/ \E key \in FrameKeys : handleKeyUp(key)
  \/ MovementUpdate
  \/ BulletUpdate
  \/ RenderUpdate
  \/ CollisionBegin
  \/ CollisionStep
  \/ CollisionEnd

Spec == Init /\ [][Next]_vars

(***************************************************************************)
(* The click-to-fire handler of main with its cooldown: pointer-down       *)
(* events and the one-shot timer callback run between frames.              *)
(***************************************************************************)
\* (variant: the handler does not look at the flag)
FireAllowedAlways(flag) == TRUE
\* the handler's test of the fire-enabled flag
FireAllowed(flag) == flag

\* scene.pick(pointerX, pointerY): no hit, or the picked point: a point on
\* the ground, the player's own position
Picks ==
  {[hit |-> FALSE, pickedPoint |-> Zero3],
   [hit |-> TRUE, pickedPoint |-> Vec(3000, 0, 4000)],
   [hit |-> TRUE, pickedPoint |-> playerInitialPos]}

\* fireDirection: from the player to the picked point, levelled and normalized
FireDirection(from, pickedPoint) == Normalize([VSub(pickedPoint, from) EXCEPT !.y = 0])

\* the pointer-down handler, for a left click
Click ==
  /\ pc = "idle"
  /\ events < MaxEvents
  /\ \E pickResult \in Picks :
       LET players == DOMAIN player \cap DOMAIN transform
       IN IF FireAllowed(canFire) /\ players # {} /\ pickResult.hit
          THEN LET p == CHOOSE e \in players : TRUE
                   fireDirection == FireDirection(transform[p].pos, pickResult.pickedPoint)
               IN IF LengthSquared(fireDirection) > 10000
                  THEN /\ fireBullet(p, transform[p].pos, fireDirection)
                       /\ canFire' = FALSE
                       /\ pendingTimeouts' = pendingTimeouts + 1
                       /\ lastCall' = Call("fireBullet", "", PoolEmpty(pool), lastCall.rejected)
                  ELSE UNCHANGED <<components, pool, registry, fireVars, lastCall>>
          ELSE UNCHANGED <<components, pool, registry, fireVars, lastCall>>
  /\ events' = events + 1
  /\ UNCHANGED <<spriteManagers, managerSprites, keysPressed, cameraVars, frameVars, particleVars, fireStreak>>

\* the callback of setTimeout(() => { canFire = true; }, fireCooldown * 1000)
CooldownTimeout ==
  /\ pc = "idle"
  /\ pendingTimeouts > 0
  /\ canFire' = TRUE
  /\ pendingTimeouts' = pendingTimeouts - 1
  /\ UNCHANGED <<components, pool, registry, spriteManagers, managerSprites, keysPressed, cameraVars, frameVars,
                 particleVars, callVars>>

\* the systems of a frame after MovementSystem: the callback runs to its end
FrameSteps == BulletUpdate \/ RenderUpdate \/ CollisionBegin \/ CollisionStep \/ CollisionEnd

FireNext == Click \/ CooldownTimeout \/ MovementUpdateAt(FrameDt) \/ FrameSteps
\* a frame callback that has started completes, and a due timer callback is run
\* by the event loop between frames
FireSpec == Init /\ [][FireNext]_vars /\ WF_vars(FrameSteps) /\ SF_vars(CooldownTimeout)

(***************************************************************************)
(* Movement and camera: every key MovementSystem reads, fireBullet calls   *)
(* and frames, over worlds with and without a moving player.               *)
(***************************************************************************)
MoveNext ==
  \/ FrameFireBullet
  \/ \E key \in Keys : handleKeyDown(key)
  \/ \E key \in Keys : handleKeyUp(key)
  \/ MovementUpdateAt(FrameDt)
  \/ FrameSteps
\* the worlds MovementSystem is run over: the seeded one, one whose player
\* entity holds no Velocity, one whose player entity holds no Transform (and so
\* got no handle when added), and one in which no entity is tagged Player
MoveWorlds ==
  {[transform |-> seededTransform, velocity |-> seededVelocity, player |-> seededPlayer, unmanaged |-> {}],
   [transform |-> seededTransform, velocity |-> (EnemyId :> [vel |-> Zero3]), player |-> seededPlayer,
    unmanaged |-> {}],
   [transform |-> [e \in (DOMAIN seededTransform) \ {PlayerId} |-> seededTransform[e]],
    velocity |-> seededVelocity, player |-> seededPlayer, unmanaged |-> {PlayerId}],
   [transform |-> seededTransform, velocity |-> seededVelocity, player |-> << >>, unmanaged |-> {}]}
MoveInit == \E w \in MoveWorlds : InitWorld(w.transform, w.velocity, w.player, w.unmanaged)
MoveSpec == MoveInit /\ [][MoveNext]_vars

(***************************************************************************)
(* Rendering with a failing collaborator: the sprite-sheet manager of the  *)
(* player may have failed when the player was added; fireBullet calls and  *)
(* frames of 0.12 s follow.                                                *)
(***************************************************************************)
RenderInit ==
  \E unmanaged \in {{}, {PlayerId}} : InitWorld(seededTransform, seededVelocity, seededPlayer, unmanaged)
RenderNext == FrameFireBullet \/ MovementUpdateAt(FrameDt) \/ FrameSteps
RenderSpec == RenderInit /\ [][RenderNext]_vars

(***************************************************************************)
(* The particle system driven directly: spawnParticles and update calls    *)
(* in any order.                                                           *)
(***************************************************************************)
BurstCounts == {1, 2, 10}

CallSpawnParticles ==
  /\ pc = "idle"
  /\ events < MaxEvents
  /\ events' = events + 1
  /\ \E count \in BurstCounts :
       /\ \E draws \in [SlotsToSpawn(ParticleState, count) -> Draws] :
            SetParticleState(spawnParticles(ParticleState, playerInitialPos, "red", count, 20, 20, 80, draws))
       /\ lastCall' = Call("spawnParticles", ToString(count), FALSE, FALSE)
  /\ UNCHANGED <<fireVars, spriteManagers, managerSprites, components, pool, registry, keysPressed, cameraVars, frameVars, fireStreak>>

CallParticleUpdateAt(d) ==
  /\ pc = "idle"
  /\ ticks < MaxTicks
  /\ SetParticleState(ParticlesUpdated(ParticleState, d))
  /\ dt' = d
  /\ ticks' = ticks + 1
  /\ lastCall' = Call("update", "", FALSE, FALSE)
  /\ UNCHANGED <<fireVars, spriteManagers, managerSprites, components, pool, registry, keysPressed, cameraVars, pc, ran, bulletEntities,
                 collidableEntities, hits, expired, renderFailed, fireStreak, events>>

CallParticleUpdate == \E d \in DtSet : CallParticleUpdateAt(d)

ParticleNext == CallSpawnParticles \/ CallParticleUpdate
ParticleSpec == Init /\ [][ParticleNext]_vars

(***************************************************************************)
(* Every operation of the five systems: fireBullet calls and frames, with  *)
(* the particle system's update called between frames.                     *)
(***************************************************************************)
SystemsNext ==
  \/ FrameFireBullet
  \/ MovementUpdateAt(FrameDt)
  \/ FrameSteps
  \/ CallParticleUpdateAt(FrameDt)
SystemsSpec == Init /\ [][SystemsNext]_vars

(***************************************************************************)
(* The frame pipeline alone: fireBullet calls between frames of any of the *)
(* lengths, with slow shots from above the enemy that reach it after one   *)
(* second and after two, the second being the bullet's whole lifespan.     *)
(***************************************************************************)
PipelineShots ==
  {[firedBy |-> PlayerId, position |-> enemyInitialPos, direction |-> Vec(0, -60, 0)],
   [firedBy |-> PlayerId, position |-> enemyInitialPos, direction |-> Vec(0, -120, 0)]}

PipelineFire ==
  /\ EventDue
  /\ \E shot \in PipelineShots : fireBullet(shot.firedBy, shot.position, shot.direction)
  /\ events' = events + 1
  /\ fireStreak' = IF fireStreak >= 0 /\ fireStreak <= BULLET_POOL_SIZE THEN fireStreak + 1 ELSE fireStreak
  /\ lastCall' = Call("fireBullet", "", PoolEmpty(pool), lastCall.rejected)
  /\ UNCHANGED <<fireVars, spriteManagers, managerSprites, keysPressed, cameraVars, frameVars, particleVars>>

PipelineNext == PipelineFire \/ MovementUpdate \/ FrameSteps
PipelineSpec == Init /\ [][PipelineNext]_vars

(***************************************************************************)
(* Frames that keep occurring: frames of one second follow one another,    *)
(* and fireBullet is called between them as long as the frames still to    *)
(* come cover a bullet's lifespan.                                         *)
(***************************************************************************)
SecondDt == 50
LifespanFrames == (BULLET_LIFESPAN + SecondDt - 1) \div SecondDt

ExpiryFire ==
  /\ ticks + LifespanFrames <= MaxTicks
  /\ PipelineFire

ExpiryNext == ExpiryFire \/ MovementUpdateAt(SecondDt) \/ FrameSteps
\* the render loop calls the frame callback again and again, and a callback
\* that has started runs to its end
ExpirySpec == Init /\ [][ExpiryNext]_vars /\ WF_vars(MovementUpdateAt(SecondDt) \/ FrameSteps)

(***************************************************************************)
(* Pool cycles: fireBullet and returnBullet called by any caller between   *)
(* frames of any of the lengths.                                           *)
(***************************************************************************)
CycleReturn ==
  /\ EventDue
  /\ Len(pool) < MaxPoolLen
  /\ \E entity \in Bullets :
       /\ returnBullet(entity)
       /\ lastCall' = Call("returnBullet", entity, FALSE, lastCall.rejected)
  /\ events' = events + 1
  /\ fireStreak' = -1
  /\ UNCHANGED <<fireVars, spriteManagers, managerSprites, keysPressed, cameraVars, frameVars, particleVars>>

CycleNext == PipelineFire \/ CycleReturn \/ MovementUpdate \/ FrameSteps
CycleSpec == Init /\ [][CycleNext]_vars

(***************************************************************************)
(* A barrage: the player's identifier fires straight down from above the   *)
(* enemy, as often as the pool allows, between frames of 0.12 s.           *)
(***************************************************************************)
BarrageShot == [firedBy |-> PlayerId, position |-> enemyInitialPos, direction |-> Down]

BarrageFire ==
  /\ pc = "idle"
  /\ ticks < BarrageTicks
  /\ ~PoolEmpty(pool)
  /\ fireBullet(BarrageShot.firedBy, BarrageShot.position, BarrageShot.direction)
  /\ fireStreak' = IF fireStreak >= 0 /\ fireStreak <= BULLET_POOL_SIZE THEN fireStreak + 1 ELSE fireStreak
  /\ lastCall' = Call("fireBullet", "", PoolEmpty(pool), lastCall.rejected)
  /\ UNCHANGED <<fireVars, spriteManagers, managerSprites, keysPressed, cameraVars, frameVars, particleVars, events>>

BarrageNext == BarrageFire \/ MovementUpdateWithin(FrameDt, BarrageTicks) \/ FrameSteps
BarrageSpec == Init /\ [][BarrageNext]_vars

(***************************************************************************)
(* Properties of the bullet pool.                                          *)
(***************************************************************************)
ActiveBullets == DOMAIN bullet
InPool(e) == \E i \in 1..Len(pool) : pool[i] = e

\* C1: pool conservation.  The number of identifiers in the free pool plus the
\* number of entities holding the Bullet component equals the fixed capacity,
\* after any sequence of fireBullet and returnBullet calls.
C1_PoolConservation == Len(pool) + Cardinality(ActiveBullets) = BULLET_POOL_SIZE

\* C2: no identifier is in the pool twice at the same time (a second
\* returnBullet on the same entity does not push it again).
C2_NoDuplicateInPool == \A i, j \in 1..Len(pool) : i # j => pool[i] # pool[j]

\* C3: pool exhaustion is rejected without effect.  A fireBullet on an empty
\* pool changes no component and leaves the pool empty; the call one past the
\* capacity, in a row from construction, is such a call; and a returnBullet on
\* an active bullet while the pool is empty makes exactly one identifier
\* available.
C3_Step ==
  /\ (lastCall'.op = "fireBullet" /\ PoolEmpty(pool)) => UNCHANGED <<components, pool, registry>>
  /\ (fireStreak' = BULLET_POOL_SIZE + 1) => (PoolEmpty(pool) /\ UNCHANGED <<components, pool, registry>>)
  /\ (lastCall'.op = "returnBullet" /\ lastCall'.entity \in ActiveBullets /\ PoolEmpty(pool))
        => Len(pool') = 1
C3_ExhaustionRejected == [][C3_Step]_vars
\* the end-to-end scenario has run: after a rejected fireBullet, one active
\* bullet was returned and one identifier is available
C3_Witness ==
  /\ lastCall.op = "returnBullet" /\ lastCall.afterRejected
  /\ Len(pool) = 1
  /\ Cardinality(ActiveBullets) = BULLET_POOL_SIZE - 1

\* C11: after returnBullet(entity) on an active bullet, the entity holds none of
\* Bullet, Transform, Velocity, Collidable, its SpriteRef has isVisible = false,
\* and its identifier is on top of the free stack.
C11_Step ==
  (lastCall'.op = "returnBullet" /\ lastCall' # lastCall /\ lastCall'.entity \in ActiveBullets) =>
    LET e == lastCall'.entity
    IN /\ e \notin DOMAIN bullet' \cup DOMAIN transform' \cup DOMAIN velocity' \cup DOMAIN collidable'
       /\ e \in DOMAIN spriteRef' /\ ~spriteRef'[e].isVisible
       /\ pool' # << >> /\ PoolTop(pool') = e
C11_ReturnDeactivates == [][C11_Step]_vars

\* C19: fireBullet gives the bullet the velocity normalize(direction) *
\* BULLET_SPEED: whatever the length of the direction argument, the speed of a
\* fired bullet equals BULLET_SPEED.
C19_BulletSpeedNormalized ==
  \A b \in ActiveBullets \cap DOMAIN velocity :
    LengthSquared(velocity[b].vel) = BULLET_SPEED * BULLET_SPEED

(***************************************************************************)
(* Properties of the frame loop.                                           *)
(***************************************************************************)
BulletUpdateStep == pc = "bullet" /\ pc' = "render"
MovementStep == pc = "idle" /\ pc' = "bullet"
LastHit == hits[Len(hits)]

\* C4: lifespan monotonicity.  A BulletSystem.update(dt) with dt > 0 leaves
\* every active bullet either active with its lifespan decreased by exactly
\* dt, when that is still positive, or deactivated and back in the pool, when
\* it is not: a bullet is deactivated in the first update after which its
\* lifespan is <= 0 and in no earlier one.
C4_Step ==
  (BulletUpdateStep /\ dt > 0) =>
    \A e \in ActiveBullets :
      LET left == bullet[e].lifespan - dt
      IN /\ left > 0 => (e \in DOMAIN bullet' /\ bullet'[e].lifespan = left)
         /\ left <= 0 => (e \notin DOMAIN bullet' /\ \E i \in 1..Len(pool') : pool'[i] = e)
C4_LifespanMonotonic == [][C4_Step]_vars
\* an update has just deactivated a bullet that an earlier update had aged,
\* while it only aged another
C4_Witness ==
  /\ pc = "render" /\ dt > 0 /\ expired # {}
  /\ \E e \in ActiveBullets : bullet[e].lifespan = BULLET_LIFESPAN - dt

\* C5: self-exemption.  No collision is registered between a bullet and the
\* entity whose id equals its firedBy, nor between a bullet and itself.
C5_SelfExemption ==
  \A i \in 1..Len(hits) : hits[i].other # hits[i].firedBy /\ hits[i].other # hits[i].bullet
\* a collision pass has ended with a bullet still active although its bounding
\* volume overlaps that of the entity that fired it
C5_Witness ==
  /\ pc = "idle" /\ lastCall.op = "tick"
  /\ \E b \in ActiveBullets :
       /\ b \in DOMAIN collidable /\ bullet[b].firedBy \in DOMAIN collidable
       /\ Intersects(collidable[b].boundingInfo, collidable[bullet[b].firedBy].boundingInfo)

\* C6: damage application.  When a bullet with damage d registers a collision
\* with a target holding Health with hp = h, then after that collision the
\* target's hp is h - d, the bullet is in the pool and it is no longer a member
\* of the active-bullets query.
C6_Step ==
  (pc = "colliding" /\ Len(hits') = Len(hits) + 1) =>
    LET hit == hits'[Len(hits')]
    IN hit.other \in DOMAIN health =>
         /\ hit.other \in DOMAIN health'
         /\ health'[hit.other].hp = health[hit.other].hp - bullet[hit.bullet].damage
         /\ health'[hit.other].maxHp = health[hit.other].maxHp
         /\ \E i \in 1..Len(pool') : pool'[i] = hit.bullet
         /\ hit.bullet \notin (DOMAIN bullet' \cap DOMAIN transform' \cap DOMAIN velocity')
C6_DamageApplied == [][C6_Step]_vars
\* a bullet has just hit the player, whose hp went from 100 to 90
C6_Witness ==
  /\ pc = "colliding" /\ Len(hits) > 0
  /\ LastHit.other = PlayerId /\ health[PlayerId].hp = 100 - LastHit.damage
  /\ InPool(LastHit.bullet) /\ LastHit.bullet \notin ActiveBullets

\* C7: every tick runs MovementSystem, BulletSystem, RenderSpriteSystem,
\* CollisionSystem and the ParticleSystem advance, once each, in this order.
C7_TickRunsAllSystems ==
  (pc = "idle" /\ ticks > 0) =>
    ran = <<"MovementSystem", "BulletSystem", "RenderSpriteSystem", "CollisionSystem", "ParticleSystem">>

\* C8: bounding-volume freshness.  When CollisionSystem.update starts, every
\* entity holding Transform, Velocity and Collidable has a bounding volume
\* centered on its current Transform position.
C8_BoundingVolumesFresh ==
  pc = "collision" =>
    \A e \in DOMAIN transform \cap DOMAIN velocity \cap DOMAIN collidable :
      collidable[e].boundingInfo = BoxAround(transform[e].pos)

\* C9 (as claimed): MovementSystem.update(dt) moves every entity holding
\* Transform and Velocity by the velocity it held before the call, times dt.
C9_Original_Step ==
  MovementStep =>
    \A e \in allMovingQuery : transform'[e].pos = VAdd(transform[e].pos, VScale(velocity[e].vel, dt'))
C9_IntegratesPriorVelocity == [][C9_Original_Step]_vars

\* C9 (amended): MovementSystem.update(dt) moves every entity holding Transform
\* and Velocity by v * dt, where v is the velocity the entity holds once the
\* call has written the player velocity: the velocity held before the call for
\* an entity outside the player query, and that velocity with x and z replaced
\* by the move direction for an entity inside it.
C9_Step ==
  MovementStep =>
    \A e \in allMovingQuery :
      /\ transform'[e].pos = VAdd(transform[e].pos, VScale(velocity'[e].vel, dt'))
      /\ e \notin playerQuery => velocity'[e] = velocity[e]
      /\ e \in playerQuery => velocity'[e].vel.y = velocity[e].vel.y
C9_MovementIntegration == [][C9_Step]_vars
\* a movement step with dt > 0 has moved the player under a key and a bullet
C9_Witness ==
  /\ pc = "bullet" /\ dt > 0
  /\ transform[PlayerId].pos # playerInitialPos
  /\ \E b \in activeBullets : velocity[b].vel # Zero3

\* C12: in one CollisionSystem.update a bullet resolves against at most one
\* target.  A step of the pass registers at most one collision; the bullet of
\* a registered collision has none registered earlier in the pass, is out of
\* the bullets still to be examined and back in the pool, and no entity other
\* than the one target has its health changed, however many candidates overlap.
C12_Step ==
  pc = "colliding" =>
    LET changed == {e \in DOMAIN health : health'[e] # health[e]}
    IN /\ Len(hits') <= Len(hits) + 1
       /\ \A i \in 1..Len(hits) : hits'[i] = hits[i]
       /\ Len(hits') = Len(hits) => changed = {}
       /\ Len(hits') = Len(hits) + 1 =>
            LET hit == hits'[Len(hits')]
            IN /\ \A i \in 1..Len(hits) : hits[i].bullet # hit.bullet
               /\ hit.bullet \notin bulletEntities'
               /\ \E i \in 1..Len(pool') : pool'[i] = hit.bullet
               /\ changed \subseteq {hit.other}
C12_AtMostOneTarget == [][C12_Step]_vars
\* a bullet that overlapped two candidates, one of them holding Health, has
\* just been resolved against one of them
C12_Witness ==
  /\ pc = "colliding" /\ Len(hits) > 0
  /\ LastHit.candidates >= 2
  /\ InPool(LastHit.bullet)
  /\ \E e \in DOMAIN health : health[e].hp < health[e].maxHp

\* C13: a drawable handle is disposed when its entity stops being renderable,
\* whether the entity was removed or lost its Transform or SpriteRef component:
\* no entity outside the {Transform, SpriteRef} query keeps a handle.
C13_HandleDisposedWhenNotRenderable ==
  \A e \in DOMAIN spriteRef : e \notin renderQuery => spriteRef[e].spriteInstance = << >>

\* C14: per-entity failures are isolated.  In a RenderSpriteSystem.update, a
\* failure to obtain a sprite-sheet manager or to create a drawable for one
\* entity does not keep the other entities of the {Transform, SpriteRef} query
\* from being mirrored in that frame: every entity of the query that holds a
\* handle has it at the entity's Transform position after the update.
C14_Step ==
  (pc = "render" /\ pc' = "collision") =>
    \A e \in renderQuery :
      spriteRef[e].spriteInstance # << >> =>
        /\ spriteRef'[e].spriteInstance # << >>
        /\ spriteRef'[e].spriteInstance[1].position = transform[e].pos
C14_FailuresIsolated == [][C14_Step]_vars

\* C16: query membership is live.  A bullet activated by fireBullet is, on the
\* next tick, a member of the {Transform, Velocity} query that MovementSystem
\* integrates and of the two lists CollisionSystem materializes from its
\* {Bullet, Collidable, Transform} and {Collidable, Transform} queries; a
\* bullet that is not active (never fired, or returned) is a member of none.
C16_Step ==
  /\ MovementStep =>
       \A b \in Bullets :
         IF b \in ActiveBullets
         THEN /\ b \in allMovingQuery
              /\ transform'[b].pos = VAdd(transform[b].pos, VScale(velocity[b].vel, dt'))
         ELSE b \notin allMovingQuery /\ b \notin DOMAIN transform'
  /\ (pc = "collision" /\ pc' = "colliding") =>
       \A b \in Bullets :
         IF b \in ActiveBullets
         THEN b \in bulletEntities' /\ b \in collidableEntities'
         ELSE b \notin bulletEntities' /\ b \notin collidableEntities'
C16_LiveQueries == [][C16_Step]_vars
\* a collision pass starts with one bullet, fired and moved since, in both
\* lists, and another, fired and returned earlier, in neither
C16_Witness ==
  /\ pc = "colliding"
  /\ \E b \in bulletEntities \cap collidableEntities :
       transform[b].pos # SpawnPosition(besideBox3, North) /\ velocity[b].vel = BulletVelocity(North)
  /\ \E b \in Bullets \ ActiveBullets :
       spriteRef[b].isVisible /\ InPool(b) /\ b \notin collidableEntities

\* the footprints of two bounding volumes on the ground plane overlap or touch
OverlapsXZ(a, b) ==
  ~(\/ a.max.x < b.min.x \/ a.min.x > b.max.x
    \/ a.max.z < b.min.z \/ a.min.z > b.max.z)
SeededTargets == {EnemyId, Box2Id, Box3Id}

\* C17: projectiles reach their targets.  A bullet fired level by the player
\* whose path crosses the bounding box of the enemy or of an obstacle registers
\* a collision with it: once a tick is over, no level bullet of the player is
\* still active with its footprint over a target's.
C17_ProjectilesReachTargets ==
  (pc = "idle" /\ lastCall.op = "tick") =>
    \A b \in ActiveBullets \cap DOMAIN collidable :
      (bullet[b].firedBy = PlayerId /\ velocity[b].vel.y = 0) =>
        \A t \in SeededTargets :
          ~OverlapsXZ(collidable[b].boundingInfo, collidable[t].boundingInfo)

\* C20: Health is mutated only by CollisionSystem.  No step changes which
\* entities hold Health or any maxHp; a step that changes an hp is a step of
\* the collision pass that registers a hit, and it changes the hp of the hit's
\* target only.  Movement, fireBullet, returnBullet, the bullet update, the
\* sprite mirroring and the particle system's spawnParticles and update leave
\* every hp as it is.
C20_Step ==
  /\ DOMAIN health' = DOMAIN health
  /\ \A e \in DOMAIN health : health'[e].maxHp = health[e].maxHp
  /\ health' # health =>
       /\ pc = "colliding" /\ pc' = "colliding"
       /\ Len(hits') = Len(hits) + 1
       /\ \A e \in DOMAIN health : health'[e] # health[e] => e = hits'[Len(hits')].other
C20_HealthOnlyByCollision == [][C20_Step]_vars
\* the player has been hit in a frame, and a particle update has run since
C20_Witness ==
  /\ pc = "idle" /\ lastCall.op = "update"
  /\ health[PlayerId].hp = 100 - BULLET_DAMAGE
  /\ currentTime > 0

\* C21: at rest (between ticks) no entity's hp is negative, for any number of
\* bullets that have hit it.
C21_HpNonNegativeAtRest ==
  pc = "idle" => \A e \in DOMAIN health : health[e].hp >= 0

\* C24: an inactive (pooled) bullet is not shown.  At the end of every tick,
\* every bullet identifier that is in the pool has no visible drawable: its
\* drawable handle, if one exists, has isVisible = false, including bullets
\* that were returned during that tick.
C24_PooledBulletsHidden ==
  (pc = "idle" /\ lastCall.op = "tick") =>
    \A b \in Bullets :
      (InPool(b) /\ spriteRef[b].spriteInstance # << >>) => ~spriteRef[b].spriteInstance[1].isVisible

\* C25: CollisionSystem.update skips every pair in which either side lacks a
\* bounding volume or a Transform position.  Throughout a pass every bullet
\* still to be examined holds its Bullet component; both sides of a registered
\* collision held Transform and Collidable when it was registered; and a bullet
\* returned to the pool earlier in the pass, though still in the materialized
\* candidate list, is never the target of a later collision.
C25_Step ==
  pc = "colliding" =>
    /\ bulletEntities \subseteq DOMAIN bullet
    /\ \A i \in (Len(hits) + 1)..Len(hits') :
         LET hit == hits'[i]
         IN /\ {hit.bullet, hit.other} \subseteq DOMAIN transform \cap DOMAIN collidable
            /\ ~InPool(hit.other)
            /\ \A j \in 1..Len(hits) : hits[j].bullet # hit.other
C25_IncompletePairsSkipped == [][C25_Step]_vars
\* two bullets have been resolved in one pass: the first, back in the pool and
\* still in the candidate list, was not the target of the second
C25_Witness ==
  /\ pc = "colliding" /\ Len(hits) = 2
  /\ hits[1].bullet # hits[2].bullet
  /\ hits[1].bullet \in collidableEntities /\ InPool(hits[1].bullet)
  /\ hits[1].bullet \notin DOMAIN collidable
  /\ hits[1].position = hits[2].position

\* the handle of entity e mirrors the Transform and SpriteRef in refs and trs
MirrorsEntity(refs, trs, e) ==
  LET sprite == refs[e].spriteInstance[1]
  IN /\ sprite.position = trs[e].pos
     /\ sprite.cellIndex = refs[e].cellIndex
     /\ sprite.isVisible = refs[e].isVisible
     /\ sprite.width = refs[e].renderSize.width /\ sprite.height = refs[e].renderSize.height

\* C27: render mirroring.  After RenderSpriteSystem.update, every entity
\* holding Transform and SpriteRef that has a drawable handle has the handle's
\* position, cellIndex, isVisible and size equal to the Transform position and
\* the SpriteRef's cellIndex, isVisible and renderSize; and when CollisionSystem
\* recycles a bullet that has a handle, the handle is at the position the
\* bullet had in that tick.
C27_Step ==
  /\ (pc = "render" /\ pc' = "collision") =>
        \A e \in DOMAIN transform' \cap DOMAIN spriteRef' :
          spriteRef'[e].spriteInstance # << >> => MirrorsEntity(spriteRef', transform', e)
  /\ (pc = "colliding" /\ Len(hits') = Len(hits) + 1) =>
        LET hit == hits'[Len(hits')]
        IN spriteRef[hit.bullet].spriteInstance # << >> =>
             spriteRef[hit.bullet].spriteInstance[1].position = hit.position
C27_RenderMirroring == [][C27_Step]_vars

\* C28: drawable creation is retried.  After a drawable-creation failure the
\* entity holds no handle, and in every later RenderSpriteSystem.update in
\* which it still holds Transform and a visible SpriteRef creation is attempted
\* again: the entity ends that update with a handle unless its creation failed
\* once more.
C28_Step ==
  (pc = "render" /\ pc' = "collision") =>
    /\ \A e \in renderFailed' : spriteRef'[e].spriteInstance = << >>
    /\ \A e \in renderFailed \cap renderQuery :
         NeedsSprite(spriteRef[e]) => (e \in renderFailed' \/ spriteRef'[e].spriteInstance # << >>)
C28_CreationRetried == [][C28_Step]_vars

\* the movement keys cancel: neither W nor S or both, and neither A nor D or both
KeysCancel(keys) == (("w" \in keys) <=> ("s" \in keys)) /\ (("a" \in keys) <=> ("d" \in keys))
\* a horizontal speed equal to moveSpeed, up to the rounding of the fixed-point
\* normalization (one unit per component and step)
AtMoveSpeed(v) ==
  LET sq == v.x * v.x + v.z * v.z
  IN (moveSpeed - 3) * (moveSpeed - 3) <= sq /\ sq <= (moveSpeed + 1) * (moveSpeed + 1)
\* the velocity of e after the step is the move direction of the step's keys
HoldsMoveDirection(e) ==
  LET move == MoveDirection(keysPressed, CameraForward(cameraPosition, cameraTarget),
                            CameraRight(cameraPosition, cameraTarget))
      v == velocity'[e].vel
  IN /\ v.x = move.x /\ v.z = move.z
     /\ IF KeysCancel(keysPressed) THEN v.x = 0 /\ v.z = 0 ELSE AtMoveSpeed(v)
     /\ v.y = velocity[e].vel.y

\* C29 (as claimed): after MovementSystem.update, the horizontal velocity of
\* every entity tagged Player equals the camera-relative move direction: zero
\* when no movement key is down or the keys cancel, of magnitude moveSpeed
\* otherwise; its y component is unchanged.
C29_Original_Step ==
  MovementStep => \A e \in DOMAIN player \cap DOMAIN velocity : HoldsMoveDirection(e)
C29_EveryPlayerVelocity == [][C29_Original_Step]_vars

\* C29 (amended): the same for every entity matching {Player, Transform,
\* Velocity}; the velocity of every other entity is left as it was.
C29_Step ==
  MovementStep =>
    /\ DOMAIN velocity' = DOMAIN velocity
    /\ \A e \in DOMAIN velocity :
         IF e \in playerQuery THEN HoldsMoveDirection(e) ELSE velocity'[e] = velocity[e]
C29_PlayerVelocity == [][C29_Step]_vars
\* a frame under W and D together has given the player a velocity of magnitude
\* moveSpeed and moved it
C29_Witness ==
  /\ pc = "bullet" /\ keysPressed = {"w", "d"}
  /\ PlayerId \in playerQuery
  /\ (velocity[PlayerId].vel.x # 0 \/ velocity[PlayerId].vel.z # 0)
  /\ AtMoveSpeed(velocity[PlayerId].vel)
  /\ transform[PlayerId].pos # playerInitialPos

\* the number of times identifier e is in the pool p
TimesInPool(p, e) == Cardinality({i \in 1..Len(p) : p[i] = e})

\* C30: under the frame pipeline alone (ticks and fireBullet calls, returnBullet
\* invoked only by BulletSystem.update and CollisionSystem.update), returnBullet
\* is invoked at most once per activation: a step pushes an identifier at most
\* once and only for a bullet that was active and is no longer, a bullet expired
\* by BulletSystem.update in a tick is not returned by CollisionSystem.update in
\* that tick, the pool never holds an identifier twice, and pool size plus
\* active count equals the capacity.
C30_Step ==
  /\ \A e \in Bullets :
       /\ TimesInPool(pool', e) <= TimesInPool(pool, e) + 1
       /\ TimesInPool(pool', e) > TimesInPool(pool, e) => (e \in DOMAIN bullet /\ e \notin DOMAIN bullet')
       /\ TimesInPool(pool', e) <= 1
  /\ (pc = "colliding" /\ Len(pool') > Len(pool)) =>
       \A e \in expired : TimesInPool(pool', e) = TimesInPool(pool, e)
  /\ bulletEntities' \cap expired' = {}
  /\ Len(pool') + Cardinality(DOMAIN bullet') = BULLET_POOL_SIZE
C30_ReturnedOncePerActivation == [][C30_Step]_vars
\* a tick in which BulletSystem.update returned a bullet that expired on the
\* enemy, and the collision pass then returned only the other one, which hit it
C30_Witness ==
  /\ pc = "idle" /\ expired # {} /\ Len(hits) = 1 /\ Len(pool) >= 2
  /\ hits[1].other = EnemyId /\ health[EnemyId].hp = health[EnemyId].maxHp - BULLET_DAMAGE
  /\ pool[Len(pool)] = hits[Len(hits)].bullet
  /\ pool[Len(pool)] \notin expired
  /\ \E i \in 1..(Len(pool) - 1) : pool[i] \in expired

\* C31: activation is all-or-nothing as observed between operations: under the
\* frame pipeline every pooled bullet identifier is either in the pool and holds
\* none of Bullet, Transform, Velocity, Collidable, or is out of the pool and
\* holds all four; no identifier is both in the pool and active.
C31_ActivationAllOrNothing ==
  \A e \in Bullets :
    \/ /\ InPool(e)
       /\ e \notin DOMAIN bullet \cup DOMAIN transform \cup DOMAIN velocity \cup DOMAIN collidable
    \/ /\ ~InPool(e)
       /\ e \in DOMAIN bullet \cap DOMAIN transform \cap DOMAIN velocity \cap DOMAIN collidable
\* one identifier is active while another one, fired earlier and returned after
\* a hit, is back in the pool
C31_Witness ==
  /\ Len(hits) > 0
  /\ InPool(hits[1].bullet)
  /\ hits[1].bullet \notin DOMAIN bullet \cup DOMAIN transform \cup DOMAIN velocity \cup DOMAIN collidable
  /\ \E e \in Bullets : ~InPool(e) /\ e \in DOMAIN bullet \cap DOMAIN collidable

\* C32: every bullet activated by fireBullet is eventually returned to the pool
\* provided ticks keep occurring with dt > 0: a bullet starts with lifespan
\* BULLET_LIFESPAN, only BulletSystem.update changes it, by the tick's dt, and
\* no bullet is active after the update in which the dt accumulated since its
\* activation reaches BULLET_LIFESPAN, whether or not it ever collides; once
\* the calls of fireBullet have ended, every identifier is back in the pool for
\* good.
C32_Step ==
  \A e \in Bullets :
    /\ (e \notin DOMAIN bullet /\ e \in DOMAIN bullet') => bullet'[e].lifespan = BULLET_LIFESPAN
    /\ (e \in DOMAIN bullet /\ e \in DOMAIN bullet') =>
         bullet'[e].lifespan = IF pc = "bullet" THEN bullet[e].lifespan - dt ELSE bullet[e].lifespan
    /\ (e \in DOMAIN bullet /\ pc = "bullet" /\ bullet[e].lifespan - dt <= 0) =>
         (e \notin DOMAIN bullet' /\ InPool(e)')
    /\ e \in DOMAIN bullet' => bullet'[e].lifespan > 0
C32_EventuallyReturned ==
  /\ [][C32_Step]_vars
  /\ <>[](DOMAIN bullet = {} /\ \A e \in Bullets : InPool(e))
\* a bullet is back in the pool after the update in which its lifespan ran out,
\* in a tick without a hit, after another bullet was returned by a hit
C32_Witness ==
  /\ pc = "idle" /\ expired # {} /\ Len(hits) = 0
  /\ \A e \in expired : InPool(e) /\ e \notin DOMAIN bullet
  /\ health[EnemyId].hp < health[EnemyId].maxHp
  /\ DOMAIN bullet = {}

\* the hp the step removes from the entities of set es, all together
RECURSIVE HpRemoved(_)
HpRemoved(es) ==
  IF es = {} THEN 0
  ELSE LET e == CHOOSE x \in es : TRUE
       IN (health[e].hp - health'[e].hp) + HpRemoved(es \ {e})

\* C33: over one activation a bullet applies damage at most once and to at most
\* one target: hp changes only in a step that ends the activation of exactly
\* one bullet (it was active, it is pooled and inactive afterwards), and the hp
\* removed by that step from all entities together is exactly that bullet's
\* damage, taken from one entity; so between a fireBullet and the matching
\* return a bullet removes 0 or exactly its damage.
C33_Step ==
  LET changed == {e \in DOMAIN health : health'[e].hp # health[e].hp}
      ended == {b \in DOMAIN bullet : b \notin DOMAIN bullet'}
  IN /\ DOMAIN health' = DOMAIN health
     /\ changed # {} =>
          /\ Cardinality(changed) = 1
          /\ Cardinality(ended) = 1
          /\ \A b \in ended :
               /\ InPool(b)' /\ ~InPool(b)
               /\ HpRemoved(DOMAIN health) = bullet[b].damage
               /\ hits' = Append(hits, hits'[Len(hits')]) /\ hits'[Len(hits')].bullet = b
C33_DamageOncePerActivation == [][C33_Step]_vars
\* a bullet that overlapped the enemy and another active bullet has been
\* resolved: the enemy lost exactly one damage in this pass so far, the bullet
\* is pooled, and the other bullet is still active
C33_Witness ==
  /\ pc = "colliding" /\ Len(hits) = 1
  /\ hits[1].candidates >= 2 /\ hits[1].other = EnemyId
  /\ InPool(hits[1].bullet) /\ hits[1].bullet \notin DOMAIN bullet
  /\ DOMAIN bullet # {}

\* C34: active bullets are not collision targets for one another: two active
\* bullets with overlapping bounding volumes do not register a collision with
\* each other, and neither is returned to the pool because of the other.
C34_BulletsNotTargets ==
  \A i \in 1..Len(hits) : hits[i].other \notin Bullets

\* C35: particle slots are never double-assigned: spawnParticles never
\* re-initializes a slot that holds a live (tracked) particle, so the number of
\* tracked particles never exceeds the pool capacity and a live particle's
\* startTime, lifetime, initialPosition and initialVelocity stay unchanged from
\* its spawn until it is recycled.
C35_Step ==
  /\ DOMAIN particles' \subseteq 0..(ParticleCapacity - 1)
  /\ Cardinality(DOMAIN particles') <= ParticleCapacity
  /\ \A i \in DOMAIN particles :
       /\ i \in DOMAIN particles' => particles'[i] = particles[i]
       /\ i \notin DOMAIN particles' => i \in recycled'
       /\ lastCall'.op = "spawnParticles" => (i \in DOMAIN particles' /\ sps'[i] = sps[i])
  /\ \A i \in (DOMAIN particles') \ (DOMAIN particles) :
       /\ lastCall'.op = "spawnParticles" \/ pc = "colliding"
       /\ ~sps[i].isVisible
       /\ particles'[i].startTime = currentTime
C35_NoDoubleAssignment == [][C35_Step]_vars
\* a spawnParticles has just initialized a free slot next to a live particle
\* that was spawned earlier and has been moved by an update since
C35_Witness ==
  /\ lastCall.op = "spawnParticles"
  /\ \E i, j \in DOMAIN particles :
       /\ particles[i].startTime < particles[j].startTime
       /\ particles[j].startTime = currentTime
       /\ sps[i].position # particles[i].initialPosition
       /\ sps[j].position = particles[j].initialPosition

\* C36: particle visibility and tracking agree: after every
\* ParticleSystem.update and after every spawnParticles that follows at least
\* one update, a pool slot is visible if and only if it is tracked in the active
\* map; so a slot that was never spawned or has been recycled passes the
\* inactivity test of spawnParticles.
C36_VisibleIffTracked ==
  currentTime > 0 =>
    \A i \in DOMAIN sps :
      /\ sps[i].isVisible <=> i \in DOMAIN particles
      /\ i \notin DOMAIN particles => SlotInactive(ParticleState, i)
\* after updates, one of which recycled a particle, a spawnParticles has left a
\* tracked visible slot next to an untracked invisible one
C36_Witness ==
  /\ currentTime > 0 /\ lastCall.op = "spawnParticles" /\ recycled # {}
  /\ \E i, j \in DOMAIN sps :
       /\ i \in DOMAIN particles /\ sps[i].isVisible
       /\ j \notin DOMAIN particles /\ ~sps[j].isVisible

\* C37: at most one drawable handle exists per entity at any time: the managers
\* hold at most one Sprite per entity, which is the one its SpriteRef references
\* (the entity-added notification and the per-frame catch-up never both create
\* one), and a bullet identifier that is returned and fired again reuses its
\* handle instead of getting another.
C37_OneHandlePerEntity ==
  \A e \in Entities :
    /\ managerSprites[e] <= 1
    /\ managerSprites[e] = IF e \in DOMAIN spriteRef THEN Len(spriteRef[e].spriteInstance) ELSE 0
\* a bullet whose handle was created in the first frame, and which hit the
\* player and was returned in that frame, has been fired again: its one handle
\* is still there; no other bullet has ever been fired
C37_Witness ==
  /\ pc = "idle" /\ ticks >= 1
  /\ health[PlayerId].hp < health[PlayerId].maxHp
  /\ \E b \in Bullets :
       /\ b \in DOMAIN bullet /\ bullet[b].lifespan = BULLET_LIFESPAN
       /\ managerSprites[b] = 1 /\ Len(spriteRef[b].spriteInstance) = 1
       /\ \A c \in Bullets \ {b} : ~spriteRef[c].isVisible /\ managerSprites[c] = 0
  /\ managerSprites[PlayerId] = 1

\* C38: the registry population is stable across pool cycles: no sequence of
\* fireBullet, returnBullet and ticks adds an entity to or removes one from the
\* registry, and the set of pooled bullet identifiers never changes: the
\* identifiers in the pool or active are bullet_0 .. bullet_{capacity-1}, each
\* of them an entity of the registry that holds its SpriteRef.
PoolIds == {pool[i] : i \in 1..Len(pool)}
C38_RegistryStable ==
  /\ registry = Entities
  /\ PoolIds \cup DOMAIN bullet = Bullets
  /\ Bullets \subseteq registry \cap DOMAIN spriteRef
\* a bullet has been through a pool cycle (fired, hit the enemy in the first
\* frame and was returned) and has just been fired again; no other bullet has
\* ever been fired
C38_Witness ==
  /\ ticks = 1 /\ health[EnemyId].hp < health[EnemyId].maxHp
  /\ lastCall.op = "fireBullet"
  /\ \E b \in Bullets :
       /\ b \in DOMAIN bullet /\ b \notin PoolIds
       /\ \A c \in Bullets \ {b} : c \in PoolIds /\ ~spriteRef[c].isVisible

\* the names of the components entity e holds
ComponentsOf(e) ==
  (IF e \in DOMAIN bullet THEN {"Bullet"} ELSE {})
  \cup (IF e \in DOMAIN transform THEN {"Transform"} ELSE {})
  \cup (IF e \in DOMAIN velocity THEN {"Velocity"} ELSE {})
  \cup (IF e \in DOMAIN collidable THEN {"Collidable"} ELSE {})
  \cup (IF e \in DOMAIN spriteRef THEN {"SpriteRef"} ELSE {})
  \cup (IF e \in DOMAIN health THEN {"Health"} ELSE {})
  \cup (IF e \in DOMAIN player THEN {"Player"} ELSE {})
CollisionPassStep == pc \in {"collision", "colliding"}

\* C22: CollisionSystem.update never removes an entity from the registry and
\* never removes or adds a component of a collision target, also when the
\* target's hp becomes <= 0: in every step of the pass, the only entity whose
\* set of components changes is the bullet of a collision registered in that
\* step, and it loses exactly Bullet, Transform, Velocity and Collidable.
C22_Step ==
  CollisionPassStep =>
    LET returned == {hits'[i].bullet : i \in (Len(hits) + 1)..Len(hits')}
    IN \A e \in Entities :
         IF e \in returned
         THEN ComponentsOf(e)' = ComponentsOf(e) \ {"Bullet", "Transform", "Velocity", "Collidable"}
         ELSE ComponentsOf(e)' = ComponentsOf(e)
C22_NoRemovalByCollision == [][C22_Step]_vars
\* the enemy has just been hit down to hp <= 0 and holds all its components
C22_Witness ==
  /\ pc = "colliding" /\ Len(hits) > 0
  /\ LastHit.other = EnemyId /\ health[EnemyId].hp <= 0
  /\ ComponentsOf(EnemyId) = {"Transform", "Velocity", "Collidable", "SpriteRef", "Health"}
  /\ ComponentsOf(LastHit.bullet) = {"SpriteRef"}

\* the offset after the rotation keys of a frame of length d have acted on it
OffsetRotated(offset, keys, d) ==
  IF RotationSign(keys) # 0 /\ d # 0 THEN RotateY(offset, RotationSign(keys), d) ELSE offset

\* C23 (as claimed): after MovementSystem.update, if some entity matches
\* {Player, Transform}, the camera position is that entity's post-integration
\* position plus the offset rotated by this frame's rotation keys, and the
\* camera target is that position; if none does, camera position and target
\* are unchanged.
C23_Original_Step ==
  MovementStep =>
    LET players == DOMAIN player \cap DOMAIN transform
    IN IF players # {}
       THEN \E p \in players :
              /\ cameraIsoOffset' = OffsetRotated(cameraIsoOffset, keysPressed, dt')
              /\ cameraPosition' = VAdd(transform'[p].pos, cameraIsoOffset')
              /\ cameraTarget' = transform'[p].pos
       ELSE UNCHANGED <<cameraPosition, cameraTarget>>
C23_FollowsPlayerTransform == [][C23_Original_Step]_vars

\* C23 (amended): the entity that drives the camera is the first one matching
\* {Player, Transform, Velocity}; if no entity matches, the camera position,
\* its target and the offset are left unchanged, whatever keys are down.
C23_Step ==
  MovementStep =>
    IF playerQuery # {}
    THEN \E p \in playerQuery :
           /\ cameraIsoOffset' = OffsetRotated(cameraIsoOffset, keysPressed, dt')
           /\ cameraPosition' = VAdd(transform'[p].pos, cameraIsoOffset')
           /\ cameraTarget' = transform'[p].pos
    ELSE UNCHANGED <<cameraPosition, cameraTarget, cameraIsoOffset>>
C23_CameraFollow == [][C23_Step]_vars
\* a frame has moved the player under "w" and rotated the offset under "e",
\* and the camera is at the player's new position plus the rotated offset
C23_Witness ==
  /\ pc = "bullet" /\ {"w", "e"} \subseteq keysPressed
  /\ PlayerId \in playerQuery
  /\ transform[PlayerId].pos # playerInitialPos
  /\ cameraIsoOffset # initialIsoOffset
  /\ cameraPosition = VAdd(transform[PlayerId].pos, cameraIsoOffset)
  /\ cameraTarget = transform[PlayerId].pos

(***************************************************************************)
(* Properties of the particle system.                                      *)
(***************************************************************************)
Slots == DOMAIN sps
AnyDraw == CHOOSE d \in Draws : TRUE

\* C10: particle recycling.  After an update, no particle whose age exceeds its
\* jittered lifetime is still tracked, and every untracked slot is invisible;
\* a slot that has been recycled is tracked again or is invisible and is
\* activated by a subsequent spawnParticles that asks for enough particles.
C10_ParticleRecycling ==
  /\ lastCall.op = "update" =>
       \A i \in Slots :
         IF i \in DOMAIN particles
         THEN currentTime - particles[i].startTime <= particles[i].lifetime
         ELSE ~sps[i].isVisible
  /\ \A i \in recycled :
       \/ i \in DOMAIN particles
       \/ /\ ~sps[i].isVisible
          /\ i \in DOMAIN spawnParticles(ParticleState, Zero3, "red", ParticleCapacity, 20, 20, 80,
                                         [j \in Slots |-> AnyDraw]).particles
\* a slot that was recycled is active again, while another recycled one is free
C10_Witness ==
  /\ \E i \in recycled : i \in DOMAIN particles /\ sps[i].isVisible
  /\ \E i \in recycled : i \notin DOMAIN particles /\ ~sps[i].isVisible

Min(a, b) == IF a < b THEN a ELSE b
FreeSlots == {i \in Slots : ~sps[i].isVisible /\ i \notin DOMAIN particles}

\* C15: particle shortfall is partial and non-fatal.  spawnParticles with count
\* c, when f slots are free (invisible and untracked), activates exactly
\* min(c, f) particles, all of them in free slots, and leaves the data and the
\* visual state of every particle that was already active untouched.
C15_Step ==
  lastCall'.op = "spawnParticles" =>
    \A c \in BurstCounts :
      lastCall'.entity = ToString(c) =>
        LET activated == (DOMAIN particles') \ (DOMAIN particles)
        IN /\ Cardinality(activated) = Min(c, Cardinality(FreeSlots))
           /\ activated \subseteq FreeSlots
           /\ \A i \in activated : sps'[i].isVisible
           /\ \A i \in DOMAIN particles :
                i \in DOMAIN particles' /\ particles'[i] = particles[i] /\ sps'[i] = sps[i]
           /\ \A i \in Slots \ activated : sps'[i] = sps[i]
C15_PartialSpawn == [][C15_Step]_vars
\* a burst of 10 has just filled the pool, next to a particle spawned earlier
C15_Witness ==
  /\ lastCall.op = "spawnParticles" /\ lastCall.entity = ToString(10)
  /\ DOMAIN particles = Slots
  /\ \E i, j \in Slots : particles[i].startTime < particles[j].startTime
  /\ \E j \in Slots : particles[j].startTime = currentTime

\* C26: on every registered intersection CollisionSystem triggers exactly one
\* particle burst at the bullet's current Transform position, asking for 15
\* particles when the target holds Health and for 10 when it does not, before
\* returnBullet removes the bullet's components: the step that registers the
\* collision activates min(count, free slots) particles, all of them at the
\* position the bullet held before the step, and a step of the pass that
\* registers none activates none.
C26_Step ==
  pc = "colliding" =>
    LET activated == (DOMAIN particles') \ (DOMAIN particles)
    IN IF Len(hits') = Len(hits)
       THEN particles' = particles
       ELSE LET hit == hits'[Len(hits')]
            IN /\ Len(hits') = Len(hits) + 1
               /\ hit.bullet \in DOMAIN transform /\ hit.position = transform[hit.bullet].pos
               /\ hit.bullet \notin DOMAIN transform'
               /\ hit.particleCount = (IF hit.other \in DOMAIN health THEN 15 ELSE 10)
               /\ Cardinality(activated) = Min(hit.particleCount, Cardinality(FreeSlots))
               /\ \A i \in activated :
                    /\ particles'[i].initialPosition = hit.position
                    /\ particles'[i].startTime = currentTime
                    /\ sps'[i].position = hit.position /\ sps'[i].isVisible
               /\ \A i \in DOMAIN particles : i \in DOMAIN particles' /\ particles'[i] = particles[i]
C18_Inv == pendingTimeouts <= 1 /\ (canFire <=> pendingTimeouts = 0)
C18_Step ==
  (pendingTimeouts' > pendingTimeouts \/ Len(pool') < Len(pool)) =>
    /\ canFire /\ pendingTimeouts = 0
    /\ ~canFire' /\ pendingTimeouts' = 1
C18_FireCooldown == [](C18_Inv) /\ [][C18_Step]_vars /\ (~canFire ~> canFire)
\* a second click has fired, after the cooldown of the first had run out, and
\* its own cooldown is pending
C18_Witness ==
  /\ ~canFire /\ pendingTimeouts = 1
  /\ Cardinality(ActiveBullets) = 2
  /\ \A b \in ActiveBullets : bullet[b].firedBy = PlayerId

=============================================================================
